---- MODULE Spec2Model ----
(***************************************************************************)
(* Budget Tracker CLI (src/budget_tracker.py): the CSV store, the field    *)
(* validators, the six command operations and the two interfaces           *)
(* (single-shot argv dispatch and the interactive loop).                   *)
(*                                                                         *)
(* Text is a sequence of one-character strings, so that lower(), strip(),  *)
(* split(), startswith(), isdigit(), int(), float(), strptime() and the    *)
(* ".2f" format are computed character by character.  A float is a record  *)
(* [k, neg, m]: k is "fin", "inf" or "nan", neg the sign bit, m the        *)
(* magnitude in units of 10^-MaxFrac.  The CSV file is modelled at the     *)
(* level of the csv module's rows (a sequence of rows, each a sequence of  *)
(* fields); quoting inside a line is the csv library's business.           *)
(***************************************************************************)
EXTENDS Integers, Sequences, FiniteSets, TLC

(* ------------------------------ bounds -------------------------------- *)
\* most data rows the store may hold (add is disabled beyond it)
MaxRows == 3
\* most fractional digits of an amount typed by the user
MaxFrac == 3

(* --------------------------- text helpers ----------------------------- *)
Digits == <<"0", "1", "2", "3", "4", "5", "6", "7", "8", "9">>
UpperAlphabet == <<"A", "B", "C", "D", "E", "F", "G", "H", "I", "J", "K", "L", "M",
                   "N", "O", "P", "Q", "R", "S", "T", "U", "V", "W", "X", "Y", "Z">>
LowerAlphabet == <<"a", "b", "c", "d", "e", "f", "g", "h", "i", "j", "k", "l", "m",
                   "n", "o", "p", "q", "r", "s", "t", "u", "v", "w", "x", "y", "z">>

IsDigitChar(c) == \E i \in DOMAIN Digits : Digits[i] = c
DigitVal(c) == (CHOOSE i \in DOMAIN Digits : Digits[i] = c) - 1

\* str.lower() on one character
LowerChar(c) ==
    IF \E i \in DOMAIN UpperAlphabet : UpperAlphabet[i] = c
    THEN LowerAlphabet[CHOOSE i \in DOMAIN UpperAlphabet : UpperAlphabet[i] = c]
    ELSE c

\* str.lower()
Lower(s) == [i \in DOMAIN s |-> LowerChar(s[i])]

RECURSIVE LStrip(_)
LStrip(s) == IF s # <<>> /\ Head(s) = " " THEN LStrip(Tail(s)) ELSE s
RECURSIVE RStrip(_)
RStrip(s) == IF s # <<>> /\ s[Len(s)] = " " THEN RStrip(SubSeq(s, 1, Len(s) - 1)) ELSE s
\* str.strip()
Strip(s) == RStrip(LStrip(s))

\* str.startswith(p)
StartsWith(s, p) == Len(p) <= Len(s) /\ SubSeq(s, 1, Len(p)) = p

\* s[:n]
Take(s, n) == SubSeq(s, 1, IF Len(s) < n THEN Len(s) ELSE n)

\* str.isdigit(): non-empty and every character a digit
IsDigitStr(s) == s # <<>> /\ \A i \in DOMAIN s : IsDigitChar(s[i])

RECURSIVE NatOf(_)
\* value of a digit string ("" counts 0)
NatOf(s) == IF s = <<>> THEN 0 ELSE 10 * NatOf(SubSeq(s, 1, Len(s) - 1)) + DigitVal(s[Len(s)])

RECURSIVE StrOfNat(_)
\* decimal digits of a natural number
StrOfNat(n) == IF n < 10 THEN <<Digits[n + 1]>> ELSE StrOfNat(n \div 10) \o <<Digits[(n % 10) + 1]>>

RECURSIVE Pow10(_)
Pow10(n) == IF n = 0 THEN 1 ELSE 10 * Pow10(n - 1)

RECURSIVE SplitOn(_, _)
\* s.split(sep) for a one-character separator: the fields between separators
SplitOn(s, sep) ==
    IF \A i \in DOMAIN s : s[i] # sep THEN <<s>>
    ELSE LET p == CHOOSE i \in DOMAIN s : s[i] = sep /\ \A j \in 1..(i - 1) : s[j] # sep
         IN <<SubSeq(s, 1, p - 1)>> \o SplitOn(SubSeq(s, p + 1, Len(s)), sep)

\* str.split() with no argument: runs of blanks separate, no empty words
SelectNonEmpty(ws) == SelectSeq(ws, LAMBDA w : w # <<>>)
Words(s) == SelectNonEmpty(SplitOn(s, " "))

(* ------------------------------ floats -------------------------------- *)
\* one unit of magnitude is 10^-MaxFrac; a cent is CentUnit units
CentUnit == Pow10(MaxFrac - 2)
Fin(neg, m) == [k |-> "fin", neg |-> neg, m |-> m]
NaN == [k |-> "nan", neg |-> FALSE, m |-> 0]
Inf(neg) == [k |-> "inf", neg |-> neg, m |-> 0]
NotAFloat == [k |-> "err", neg |-> FALSE, m |-> 0]
Zero == Fin(FALSE, 0)

\* a + b on floats: nan absorbs, inf - inf is nan, x + (-x) is +0.0, -0.0 + -0.0 is -0.0
FAdd(a, b) ==
    IF a.k = "nan" \/ b.k = "nan" THEN NaN
    ELSE IF a.k = "inf" /\ b.k = "inf" THEN (IF a.neg = b.neg THEN a ELSE NaN)
    ELSE IF a.k = "inf" THEN a
    ELSE IF b.k = "inf" THEN b
    ELSE LET sa == IF a.neg THEN 0 - a.m ELSE a.m
             sb == IF b.neg THEN 0 - b.m ELSE b.m
             t == sa + sb
         IN IF t = 0 THEN Fin(a.neg /\ b.neg, 0)
            ELSE IF t < 0 THEN Fin(TRUE, 0 - t) ELSE Fin(FALSE, t)

\* -a (the sort key of category_summary)
FNeg(a) == IF a.k = "nan" THEN NaN ELSE [a EXCEPT !.neg = ~a.neg]

\* a < b on floats: false whenever a nan is involved, -0.0 equals 0.0
FLt(a, b) ==
    IF a.k = "nan" \/ b.k = "nan" THEN FALSE
    ELSE IF a.k = "inf" THEN a.neg /\ ~(b.k = "inf" /\ b.neg)
    ELSE IF b.k = "inf" THEN ~b.neg
    ELSE (IF a.neg THEN 0 - a.m ELSE a.m) < (IF b.neg THEN 0 - b.m ELSE b.m)

\* a decimal tie between two cents whose binary double is not the tie itself:
\* which way it rounds depends on the double's expansion (2.675 -> 2.67)
IsInexactTie(m) == 2 * (m % CentUnit) = CentUnit /\ (8 * m) % Pow10(MaxFrac) # 0

\* the magnitude rounded to whole cents, exact ties to the even cent
RoundCents(m) ==
    LET q == m \div CentUnit
        r == m % CentUnit
    IN IF 2 * r < CentUnit THEN q
       ELSE IF 2 * r > CentUnit THEN q + 1
       ELSE IF q % 2 = 0 THEN q ELSE q + 1

\* round(x, 2)
Round2(a) == IF a.k = "fin" THEN Fin(a.neg, RoundCents(a.m) * CentUnit) ELSE a

\* f"{x:.2f}": sign, integer digits, ".", two digits; "nan", "inf", "-inf" otherwise
FormatAmount(a) ==
    IF a.k = "nan" THEN <<"n", "a", "n">>
    ELSE (IF a.neg THEN <<"-">> ELSE <<>>) \o
         (IF a.k = "inf" THEN <<"i", "n", "f">>
          ELSE LET c == RoundCents(a.m)
               IN StrOfNat(c \div 100) \o <<".">> \o
                  <<Digits[((c % 100) \div 10) + 1], Digits[(c % 10) + 1]>>)

\* float(s): blanks stripped, optional sign, then nan / inf / infinity in any
\* case, or digits with at most one point and at least one digit
ParseUnsigned(t) ==
    LET low == Lower(t)
        parts == SplitOn(t, ".")
    IN IF low = <<"n", "a", "n">> THEN NaN
       ELSE IF low = <<"i", "n", "f">> \/ low = <<"i", "n", "f", "i", "n", "i", "t", "y">>
            THEN Inf(FALSE)
       ELSE IF Len(parts) > 2 THEN NotAFloat
       ELSE LET ip == parts[1]
                fp == IF Len(parts) = 2 THEN parts[2] ELSE <<>>
                fr == Take(fp, MaxFrac)  \* digits below the model's resolution are dropped
            IN IF ip \o fp = <<>> \/ ~(\A i \in DOMAIN (ip \o fp) : IsDigitChar((ip \o fp)[i]))
               THEN NotAFloat
               ELSE Fin(FALSE, NatOf(ip) * Pow10(MaxFrac) + NatOf(fr) * Pow10(MaxFrac - Len(fr)))
ParseFloat(s) ==
    LET t == Strip(s)
        signed == t # <<>> /\ Head(t) \in {"+", "-"}
        u == ParseUnsigned(IF signed THEN Tail(t) ELSE t)
    IN IF u.k = "err" \/ u.k = "nan" THEN u
       ELSE [u EXCEPT !.neg = signed /\ Head(t) = "-"]


(* ------------------------------- dates -------------------------------- *)
IsLeap(y) == y % 4 = 0 /\ (y % 100 # 0 \/ y % 400 = 0)
DaysInMonth(y, mo) ==
    IF mo = 2 THEN (IF IsLeap(y) THEN 29 ELSE 28)
    ELSE IF mo \in {4, 6, 9, 11} THEN 30 ELSE 31

\* the %m and %d fields of strptime: one or two digits, no "00", in range
MonthField(w) == IsDigitStr(w) /\ Len(w) <= 2 /\ NatOf(w) \in 1..12
DayField(w) ==
    \/ IsDigitStr(w) /\ Len(w) <= 2 /\ NatOf(w) \in 1..31
    \/ Len(w) = 2 /\ w[1] = " " /\ IsDigitChar(w[2]) /\ w[2] # "0"

\* datetime.strptime(s, "%Y-%m-%d") succeeds: four-digit year from 1, month,
\* day, hyphens between, nothing else, and the day exists in that month
Strptime(s) ==
    LET ps == SplitOn(s, "-")
    IN /\ Len(ps) = 3
       /\ IsDigitStr(ps[1]) /\ Len(ps[1]) = 4 /\ NatOf(ps[1]) >= 1
       /\ MonthField(ps[2])
       /\ DayField(ps[3])
       /\ NatOf(Strip(ps[3])) <= DaysInMonth(NatOf(ps[1]), NatOf(ps[2]))

(* ------------------------------- store -------------------------------- *)
VARIABLES
    file,        \* DATA_FILE: [exists, rows]; rows are the csv rows, header first
    mode,        \* "shell": no process running; "interactive": inside interactive()
    cmd,         \* the input of the last step: sys.argv[1:], or the line and the answers
    out,         \* what the last step printed
    exitStatus,  \* exit status of the last process that ended, -1 while one runs or before any did
    pc,          \* "prompt": waiting for the next command; "done": the command in cmd has run
    before       \* history: DATA_FILE as it was when the command in cmd started

vars == <<file, mode, cmd, out, exitStatus, pc, before>>

H_date == <<"d", "a", "t", "e">>
H_description == <<"d", "e", "s", "c", "r", "i", "p", "t", "i", "o", "n">>
H_category == <<"c", "a", "t", "e", "g", "o", "r", "y">>
H_amount == <<"a", "m", "o", "u", "n", "t">>
\* the header row written by ensure_csv and delete_expense
Header == <<H_date, H_description, H_category, H_amount>>

NoFile == [exists |-> FALSE, rows |-> <<>>]

\* ensure_csv(): create the file with the header row when it is absent
EnsureCsv(f) == IF f.exists THEN f ELSE [exists |-> TRUE, rows |-> <<Header>>]

\* csv.DictReader + list(): the first row names the columns, every later
\* row becomes a dict from column name to field, in file order
DictOf(names, row) ==
    [n \in {names[i] : i \in DOMAIN names} |->
        row[CHOOSE i \in DOMAIN names : names[i] = n /\ i \in DOMAIN row]]
ReadRows(f) ==
    LET g == EnsureCsv(f)
    IN [i \in 1..(Len(g.rows) - 1) |-> DictOf(g.rows[1], g.rows[i + 1])]

\* open(DATA_FILE, "a") + writer.writerow(row)
AppendRow(f, row) == [f EXCEPT !.rows = Append(@, row)]


(* ------------------------- command operations ------------------------- *)
\* what a step printed: the kind of message, the rows it shows, the total
\* line and the number it mentions
Out(kind, rows, total, n) == [kind |-> kind, rows |-> rows, total |-> total, n |-> n]
\* what an operation leaves behind: the file, the output, and whether it
\* ended the process through sys.exit(1)
Result(f, o, exited) == [file |-> f, out |-> o, exited |-> exited]

RECURSIVE SumFrom(_, _)
\* total = acc; for x in xs: total += x
SumFrom(acc, xs) == IF xs = <<>> THEN acc ELSE SumFrom(FAdd(acc, Head(xs)), Tail(xs))

\* float(r["amount"]) of every row
AmountsOf(rows) == [i \in DOMAIN rows |-> ParseFloat(rows[i][H_amount])]

\* add_expense(date, description, category, amount)
AddExpense(f, date, description, category, amount) ==
    LET g == EnsureCsv(f)
        text == FormatAmount(amount)
    IN Result(AppendRow(g, <<date, description, Lower(category), text>>),
              Out("added", <<<<date, description, category, text>>>>, <<>>, 0), FALSE)

\* rows[-limit:] for limit > 0
LastRows(rows, limit) ==
    IF limit >= Len(rows) THEN rows ELSE SubSeq(rows, Len(rows) - limit + 1, Len(rows))

\* list_expenses(limit): limit is [given, n]; "if limit:" is false for None and for 0
ListExpenses(f, limit) ==
    LET g == EnsureCsv(f)
        all == ReadRows(g)
        rows == IF limit.given /\ limit.n # 0 THEN LastRows(all, limit.n) ELSE all
        shown == [i \in DOMAIN rows |->
                    <<rows[i][H_date], Take(rows[i][H_description], 28),
                      Take(rows[i][H_category], 14),
                      FormatAmount(ParseFloat(rows[i][H_amount]))>>]
    IN Result(g, Out("list", shown, FormatAmount(SumFrom(Zero, AmountsOf(rows))), 0), FALSE)

RECURSIVE SumsByCategory(_, _)
\* sums[cat] = sums.get(cat, 0.0) + float(r["amount"]): a dict keeps its keys
\* in the order of their first insertion
SumsByCategory(sums, rows) ==
    IF rows = <<>> THEN sums
    ELSE LET r == Head(rows)
             cat == r[H_category]
             amt == ParseFloat(r[H_amount])
             next == IF \E i \in DOMAIN sums : sums[i][1] = cat
                     THEN [i \in DOMAIN sums |->
                             IF sums[i][1] = cat THEN <<cat, FAdd(sums[i][2], amt)>> ELSE sums[i]]
                     ELSE Append(sums, <<cat, FAdd(Zero, amt)>>)
         IN SumsByCategory(next, Tail(rows))

\* the sort key of category_summary: lambda x: -x[1]
KeyLt(a, b) == FLt(FNeg(a[2]), FNeg(b[2]))

RECURSIVE RunEnd(_, _, _)
\* count_run of list.sort(): where the run starting at 1 ends
RunEnd(xs, i, descending) ==
    IF i = Len(xs) THEN i
    ELSE IF KeyLt(xs[i + 1], xs[i]) = descending THEN RunEnd(xs, i + 1, descending)
    ELSE i

Reverse(xs) == [i \in DOMAIN xs |-> xs[Len(xs) + 1 - i]]

RECURSIVE BinarySearch(_, _, _, _)
\* binarysort's search: the place of pivot among xs[l..r-1]
BinarySearch(xs, pivot, l, r) ==
    IF l >= r THEN l
    ELSE LET p == l + ((r - l) \div 2)
         IN IF KeyLt(pivot, xs[p]) THEN BinarySearch(xs, pivot, l, p)
            ELSE BinarySearch(xs, pivot, p + 1, r)

RECURSIVE BinarySort(_, _)
\* binarysort: insert xs[start], xs[start+1], ... into the sorted prefix
BinarySort(xs, start) ==
    IF start > Len(xs) THEN xs
    ELSE LET pivot == xs[start]
             l == BinarySearch(xs, pivot, 1, start)
         IN BinarySort(SubSeq(xs, 1, l - 1) \o <<pivot>> \o SubSeq(xs, l, start - 1)
                         \o SubSeq(xs, start + 1, Len(xs)),
                       start + 1)

\* sorted(sums.items(), key=lambda x: -x[1]) for fewer than 64 items: the
\* first run is found (and reversed when strictly descending), the rest is
\* inserted by binary insertion
SortedByTotal(xs) ==
    IF Len(xs) < 2 THEN xs
    ELSE LET descending == KeyLt(xs[2], xs[1])
             n == RunEnd(xs, 2, descending)
             run == IF descending THEN Reverse(SubSeq(xs, 1, n)) ELSE SubSeq(xs, 1, n)
         IN BinarySort(run \o SubSeq(xs, n + 1, Len(xs)), n + 1)

\* category_summary()
CategorySummary(f) ==
    LET g == EnsureCsv(f)
        sorted == SortedByTotal(SumsByCategory(<<>>, ReadRows(g)))
    IN Result(g, Out("summary", [i \in DOMAIN sorted |->
                                   <<sorted[i][1], FormatAmount(sorted[i][2])>>], <<>>, 0),
              FALSE)

\* faulty variant: the month filter lets every record through
MatchAll(date, ym) == TRUE
\* r["date"].startswith(year_month)
MatchMonth(date, ym) == StartsWith(date, ym)

\* monthly_summary(year_month)
MonthlySummary(f, ym) ==
    LET g == EnsureCsv(f)
        rows == SelectSeq(ReadRows(g), LAMBDA r : MatchMonth(r[H_date], ym))
        shown == [i \in DOMAIN rows |->
                    <<rows[i][H_date], rows[i][H_description], rows[i][H_category],
                      FormatAmount(ParseFloat(rows[i][H_amount]))>>]
    IN IF ~Strptime(ym \o <<"-", "0", "1">>)
       THEN Result(g, Out("bad_month", <<>>, <<>>, 0), TRUE)
       ELSE Result(g, Out("monthly", shown, FormatAmount(SumFrom(Zero, AmountsOf(rows))), 0),
                   FALSE)

\* list_categories()
CATEGORIES ==
    <<<<"f", "o", "o", "d">>,
      <<"t", "r", "a", "n", "s", "p", "o", "r", "t">>,
      <<"r", "e", "n", "t">>,
      <<"u", "t", "i", "l", "i", "t", "i", "e", "s">>,
      <<"e", "n", "t", "e", "r", "t", "a", "i", "n", "m", "e", "n", "t">>,
      <<"h", "e", "a", "l", "t", "h">>,
      <<"e", "d", "u", "c", "a", "t", "i", "o", "n">>,
      <<"c", "l", "o", "t", "h", "e", "s">>,
      <<"m", "i", "s", "c">>>>
ListCategories(f) == Result(f, Out("categories", CATEGORIES, <<>>, 0), FALSE)

\* faulty variant: the last row is dropped whatever the index
PopLast(rows, index) == SubSeq(rows, 1, Len(rows) - 1)
\* rows.pop(index - 1): the rows left
Pop(rows, index) == SubSeq(rows, 1, index - 1) \o SubSeq(rows, index + 1, Len(rows))

\* faulty variant: the range error is printed but the function returns instead of
\* ending the process
DeleteExpenseReturns(f, index) ==
    LET g == EnsureCsv(f)
        rows == ReadRows(g)
        fields(r) == <<r[H_date], r[H_description], r[H_category], r[H_amount]>>
    IN IF index < 1 \/ index > Len(rows)
       THEN Result(g, Out("invalid_index", <<>>, <<>>, Len(rows)), FALSE)
       ELSE Result([exists |-> TRUE,
                    rows |-> <<Header>> \o [i \in DOMAIN Pop(rows, index) |->
                                               fields(Pop(rows, index)[i])]],
                   Out("deleted", <<fields(rows[index])>>, <<>>, index), FALSE)

\* delete_expense(index)
DeleteExpense(f, index) ==
    LET g == EnsureCsv(f)
        rows == ReadRows(g)
        removed == rows[index]
        rest == Pop(rows, index)
        fields(r) == <<r[H_date], r[H_description], r[H_category], r[H_amount]>>
    IN IF index < 1 \/ index > Len(rows)
       THEN Result(g, Out("invalid_index", <<>>, <<>>, Len(rows)), TRUE)
       ELSE Result([exists |-> TRUE,
                    rows |-> <<Header>> \o [i \in DOMAIN rest |-> fields(rest[i])]],
                   Out("deleted", <<fields(removed)>>, <<>>, index), FALSE)


(* ----------------------------- interfaces ----------------------------- *)
\* the command words
W_add == <<"a", "d", "d">>
W_list == <<"l", "i", "s", "t">>
W_summary == <<"s", "u", "m", "m", "a", "r", "y">>
W_monthly == <<"m", "o", "n", "t", "h", "l", "y">>
W_categories == <<"c", "a", "t", "e", "g", "o", "r", "i", "e", "s">>
W_delete == <<"d", "e", "l", "e", "t", "e">>
W_quit == <<"q", "u", "i", "t">>
W_exit == <<"e", "x", "i", "t">>
W_help == <<"h", "e", "l", "p">>
W_question == <<"?">>

\* int(s): blanks stripped, optional sign, digits
IntOk(s) ==
    LET u == Strip(s)
    IN IsDigitStr(IF u # <<>> /\ Head(u) \in {"+", "-"} THEN Tail(u) ELSE u)
IntOf(s) ==
    LET u == Strip(s)
    IN IF u # <<>> /\ Head(u) = "-" THEN 0 - NatOf(Tail(u))
       ELSE IF u # <<>> /\ Head(u) = "+" THEN NatOf(Tail(u)) ELSE NatOf(u)

None == [given |-> FALSE, n |-> 0]
Limit(n) == [given |-> TRUE, n |-> n]

\* faulty variant: the row is written before the amount is checked
MainAddValidatesLate(f, args) ==
    IF ~Strptime(args[2]) THEN Result(f, Out("bad_date", <<>>, <<>>, 0), TRUE)
    ELSE IF ParseFloat(args[5]).k = "err"
         THEN Result(AppendRow(EnsureCsv(f), <<args[2], args[3], Lower(args[4]), args[5]>>),
                     Out("bad_amount", <<>>, <<>>, 0), TRUE)
    ELSE AddExpense(f, args[2], args[3], Lower(args[4]), Round2(ParseFloat(args[5])))
\* the add branch of main(): valid_date, then parse_amount, then add_expense
MainAddBranch(f, args) ==
    IF ~Strptime(args[2]) THEN Result(f, Out("bad_date", <<>>, <<>>, 0), TRUE)
    ELSE IF ParseFloat(args[5]).k = "err" THEN Result(f, Out("bad_amount", <<>>, <<>>, 0), TRUE)
    ELSE AddExpense(f, args[2], args[3], Lower(args[4]), Round2(ParseFloat(args[5])))

\* main() with a non-empty argument vector: the if / elif chain
Main(f, args) ==
    IF args[1] = W_add /\ Len(args) >= 5 THEN MainAddBranch(f, args)
    ELSE IF args[1] = W_list
         THEN ListExpenses(f, IF Len(args) = 2 /\ IsDigitStr(args[2])
                              THEN Limit(NatOf(args[2])) ELSE None)
    ELSE IF args[1] = W_summary THEN CategorySummary(f)
    ELSE IF args[1] = W_monthly /\ Len(args) = 2 THEN MonthlySummary(f, args[2])
    ELSE IF args[1] = W_categories THEN ListCategories(f)
    ELSE IF args[1] = W_delete /\ Len(args) = 2
         THEN (IF IntOk(args[2]) THEN DeleteExpense(f, IntOf(args[2]))
               \* int() raises ValueError, nothing catches it: traceback, status 1
               ELSE Result(f, Out("traceback", <<>>, <<>>, 0), TRUE))
    ELSE Result(f, Out("usage", <<>>, <<>>, 0), FALSE)

\* the add branch of interactive(): the four prompts, with today's date for
\* an empty date answer; a bad date or amount prints a hint and continues
InteractiveAddBranch(f, answers, today) ==
    LET date == IF Strip(answers[1]) = <<>> THEN today ELSE Strip(answers[1])
        desc == Strip(answers[2])
        cat == Lower(Strip(answers[3]))
        amount == ParseFloat(Strip(answers[4]))
    IN IF ~Strptime(date) THEN Result(f, Out("invalid_date", <<>>, <<>>, 0), FALSE)
       ELSE IF amount.k = "err" THEN Result(f, Out("amount_not_numeric", <<>>, <<>>, 0), FALSE)
       ELSE AddExpense(f, date, desc, cat, Round2(amount))

\* one turn of the loop of interactive() for a line that is not quit / exit
InteractiveTurn(f, line, answers, today) ==
    LET c == Lower(Strip(line))
        parts == Words(c)
    IN IF c \in {W_help, W_question} THEN Result(f, Out("help", <<>>, <<>>, 0), FALSE)
       ELSE IF StartsWith(c, W_add) THEN InteractiveAddBranch(f, answers, today)
       ELSE IF StartsWith(c, W_list)
            THEN ListExpenses(f, IF Len(parts) = 2 /\ IsDigitStr(parts[2])
                                 THEN Limit(NatOf(parts[2])) ELSE None)
       ELSE IF c = W_summary THEN CategorySummary(f)
       ELSE IF StartsWith(c, W_monthly)
            THEN (IF Len(parts) # 2 THEN Result(f, Out("usage_monthly", <<>>, <<>>, 0), FALSE)
                  ELSE MonthlySummary(f, parts[2]))
       ELSE IF c = W_categories THEN ListCategories(f)
       ELSE IF StartsWith(c, W_delete)
            THEN (IF Len(parts) # 2 \/ ~IsDigitStr(parts[2])
                  THEN Result(f, Out("usage_delete", <<>>, <<>>, 0), FALSE)
                  ELSE DeleteExpense(f, NatOf(parts[2])))
       ELSE Result(f, Out("unknown", <<>>, <<>>, 0), FALSE)


(* ------------------------------- inputs ------------------------------- *)
\* what the user may type for an add: <<date, description, category, amount>>
A_coffee == 
    <<<<"2", "0", "2", "5", "-", "0", "9", "-", "0", "1">>,
      <<"C", "o", "f", "f", "e", "e">>,
      <<"F", "o", "o", "d">>,
      <<"3", ".", "5">>>>
A_rent ==
    <<<<"2", "0", "2", "5", "-", "0", "9", "-", "1", "5">>,
      <<"R", "e", "n", "t">>,
      <<"r", "e", "n", "t">>,
      <<"1", "2", "0", "0">>>>
A_book ==
    <<<<"2", "0", "2", "5", "-", "0", "8", "-", "0", "1">>,
      <<"B", "o", "o", "k">>,
      <<"e", "d", "u", "c", "a", "t", "i", "o", "n">>,
      <<"2", "0">>>>
A_gift ==
    <<<<"2", "0", "2", "5", "-", "9", "-", "1">>,
      <<"G", "i", "f", "t">>,
      <<"M", "i", "s", "c">>,
      <<"n", "a", "n">>>>
A_tip ==
    <<<<"2", "0", "2", "5", "-", "0", "8", "-", "0", "1">>,
      <<"T", "i", "p">>,
      <<"F", "O", "O", "D">>,
      <<"-", "0", ".", "1", "2", "5">>>>
A_month13 ==
    <<<<"2", "0", "2", "5", "-", "1", "3", "-", "0", "1">>,
      <<"X">>,
      <<"f", "o", "o", "d">>,
      <<"1", "0">>>>
A_feb30 ==
    <<<<"2", "0", "2", "5", "-", "0", "2", "-", "3", "0">>,
      <<"X">>,
      <<"f", "o", "o", "d">>,
      <<"1", "0">>>>
A_abc ==
    <<<<"2", "0", "2", "5", "-", "0", "9", "-", "0", "1">>,
      <<"X">>,
      <<"f", "o", "o", "d">>,
      <<"a", "b", "c">>>>
\* an interactive add that leaves the date empty and pads its answers
A_today ==
    <<<<>>,
      <<" ", "C", "o", "f", "f", "e", "e">>,
      <<"F", "o", "o", "d", " ">>,
      <<"3", ".", "5", " ">>>>
\* datetime.today().strftime("%Y-%m-%d") on the day of the run
Today == <<"2", "0", "2", "5", "-", "0", "9", "-", "0", "1">>

\* amounts whose rounding the model decides: no inexact decimal tie
AmountDecided(s) == LET a == ParseFloat(s) IN a.k # "fin" \/ ~IsInexactTie(a.m)
AddInputs ==
    {a \in {A_coffee, A_rent, A_book, A_gift, A_tip, A_month13, A_feb30, A_abc} :
        AmountDecided(a[4])}

T_extra == <<"e", "x", "t", "r", "a">>
T_x == <<"x">>
T_minus1 == <<"-", "1">>
T_bogus == <<"b", "o", "g", "u", "s">>
MonthInputs ==
    {<<"2", "0", "2", "5", "-", "0", "9">>,
     <<"2", "0", "2", "5", "-", "9">>,
     <<"2", "0", "2", "5", "-", "0", "8">>,
     <<"2", "0", "2", "5", "-", "1", "3">>,
     <<"2", "0", "2", "5">>}
\* the numbers typed after list and delete
NumberInputs == {StrOfNat(n) : n \in 0..(MaxRows + 1)}

AddArgv ==
    {<<W_add>> \o a : a \in AddInputs}
        \cup {<<W_add>> \o a \o <<T_extra>> : a \in AddInputs}
        \cup {<<W_add>> \o SubSeq(a, 1, 3) : a \in AddInputs}
ListArgv ==
    {<<W_list>>, <<W_list, T_x>>, <<W_list, StrOfNat(1), T_extra>>}
        \cup {<<W_list, n>> : n \in NumberInputs}
SummaryArgv == {<<W_summary>>, <<W_summary, T_extra>>}
MonthlyArgv ==
    {<<W_monthly>>, <<W_monthly, <<"2", "0", "2", "5", "-", "0", "9">>, T_extra>>}
        \cup {<<W_monthly, ym>> : ym \in MonthInputs}
CategoriesArgv == {<<W_categories>>}
DeleteArgv ==
    {<<W_delete>>, <<W_delete, T_minus1>>, <<W_delete, T_x>>, <<W_delete, StrOfNat(1), T_extra>>}
        \cup {<<W_delete, n>> : n \in NumberInputs}
OtherArgv == {<<T_bogus>>, <<W_help>>, <<W_quit>>}

Join(w, arg) == w \o <<" ">> \o arg
AddLines == {W_add, <<" ", "A", "d", "d", " ">>}
ListLines ==
    {W_list, Join(W_list, T_x), Join(W_list, Join(StrOfNat(1), T_extra))}
        \cup {Join(W_list, n) : n \in NumberInputs}
MonthlyLines ==
    {W_monthly} \cup {Join(W_monthly, ym) : ym \in MonthInputs}
DeleteLines ==
    {W_delete, Join(W_delete, T_minus1), Join(W_delete, T_x)}
        \cup {Join(W_delete, n) : n \in NumberInputs}
QuitLines == {W_quit, W_exit, <<"Q", "u", "i", "t", " ">>}
HelpLines == {W_help, W_question}
UnknownLines == {T_bogus, <<>>, Join(W_summary, T_x)}

(* --------------------------- the state machine ------------------------ *)
NoCmd == [iface |-> "none", args |-> <<>>, answers |-> <<>>]
Argv(args) == [iface |-> "argv", args |-> args, answers |-> <<>>]
Line(line, answers) == [iface |-> "line", args |-> <<line>>, answers |-> answers]
Silent == Out("none", <<>>, <<>>, 0)
DataRows(f) == IF f.exists THEN Tail(f.rows) ELSE <<>>

Init ==
    /\ file \in {NoFile, [exists |-> TRUE, rows |-> <<Header>>]}
    /\ mode = "shell"
    /\ cmd = NoCmd
    /\ out = Silent
    /\ exitStatus = -1
    /\ pc = "prompt"
    /\ before = file

\* python budget_tracker.py ARGS...: main() runs one command and the process ends
RunMain(args) ==
    /\ mode = "shell"
    /\ pc = "prompt"
    /\ \E res \in {Main(file, args)} :
          /\ Len(DataRows(res.file)) <= MaxRows
          /\ file' = res.file
          /\ out' = res.out
          /\ exitStatus' = IF res.exited THEN 1 ELSE 0
    /\ mode' = "shell"
    /\ cmd' = Argv(args)
    /\ pc' = "done"
    /\ before' = file

\* one line read by the loop of interactive(); sys.exit(1) inside an
\* operation ends the process
RunTurn(line, answers) ==
    /\ mode = "interactive"
    /\ pc = "prompt"
    /\ \E res \in {InteractiveTurn(file, line, answers, Today)} :
          /\ Len(DataRows(res.file)) <= MaxRows
          /\ file' = res.file
          /\ out' = res.out
          /\ exitStatus' = IF res.exited THEN 1 ELSE exitStatus
          /\ mode' = IF res.exited THEN "shell" ELSE "interactive"
    /\ cmd' = Line(line, answers)
    /\ pc' = "done"
    /\ before' = file

MainAdd == \E args \in AddArgv : RunMain(args)
MainList == \E args \in ListArgv : RunMain(args)
MainSummary == \E args \in SummaryArgv : RunMain(args)
MainMonthly == \E args \in MonthlyArgv : RunMain(args)
MainCategories == \E args \in CategoriesArgv : RunMain(args)
MainDelete == \E args \in DeleteArgv : RunMain(args)
MainOther == \E args \in OtherArgv : RunMain(args)

\* python budget_tracker.py with no argument: interactive() starts
StartInteractive ==
    /\ mode = "shell"
    /\ pc = "prompt"
    /\ file' = EnsureCsv(file)
    /\ mode' = "interactive"
    /\ cmd' = Argv(<<>>)
    /\ out' = Out("banner", <<>>, <<>>, 0)
    /\ exitStatus' = -1
    /\ pc' = "done"
    /\ before' = file

\* quit / exit: the loop breaks, main() returns, status 0
InteractiveQuit ==
    /\ mode = "interactive"
    /\ pc = "prompt"
    /\ \E line \in QuitLines :
        /\ Lower(Strip(line)) \in {W_quit, W_exit}
        /\ cmd' = Line(line, <<>>)
    /\ mode' = "shell"
    /\ exitStatus' = 0
    /\ out' = Silent
    /\ pc' = "done"
    /\ before' = file
    /\ UNCHANGED file

InteractiveHelp == \E line \in HelpLines : RunTurn(line, <<>>)
InteractiveAdd ==
    \E line \in AddLines, a \in AddInputs \cup {A_today} : RunTurn(line, a)
InteractiveList == \E line \in ListLines : RunTurn(line, <<>>)
InteractiveSummary == RunTurn(W_summary, <<>>)
InteractiveMonthly == \E line \in MonthlyLines : RunTurn(line, <<>>)
InteractiveCategories == RunTurn(W_categories, <<>>)
InteractiveDelete == \E line \in DeleteLines : RunTurn(line, <<>>)
InteractiveUnknown == \E line \in UnknownLines : RunTurn(line, <<>>)

\* the next read: input("> ") at the top of the loop, or the shell ready for
\* the next invocation; the finished command and its output are history
NextPrompt ==
    /\ pc = "done"
    /\ pc' = "prompt"
    /\ cmd' = NoCmd
    /\ out' = Silent
    /\ before' = file
    /\ UNCHANGED <<file, mode, exitStatus>>

Next ==
    \/ MainAdd
    \/ MainList
    \/ MainSummary
    \/ MainMonthly
    \/ MainCategories
    \/ MainDelete
    \/ MainOther
    \/ StartInteractive
    \/ InteractiveQuit
    \/ InteractiveHelp
    \/ InteractiveAdd
    \/ InteractiveList
    \/ InteractiveSummary
    \/ InteractiveMonthly
    \/ InteractiveCategories
    \/ InteractiveDelete
    \/ InteractiveUnknown
    \/ NextPrompt

Spec == Init /\ [][Next]_vars

(* ------------------------------ properties ---------------------------- *)
\* the command in cmd has run and the state shows its effect
Ran == pc = "done"
Count(f) == Len(DataRows(f))
Min(a, b) == IF a < b THEN a ELSE b

\* cmd is "WORD ARG" typed in either interface
Typed(w, arg) == cmd = Argv(<<w, arg>>) \/ cmd = Line(Join(w, arg), <<>>)
\* cmd is an add of the tuple a, in either interface
AddOf(a) ==
    \/ cmd = Argv(<<W_add>> \o a)
    \/ cmd.iface = "line" /\ cmd.args[1] \in AddLines /\ cmd.answers = a

\* text with exactly two decimal places: [-]digits.dd
TwoDecimalText(s) ==
    LET u == IF s # <<>> /\ s[1] = "-" THEN Tail(s) ELSE s
    IN /\ Len(u) >= 4
       /\ u[Len(u) - 2] = "."
       /\ \A i \in DOMAIN u : i # Len(u) - 2 => IsDigitChar(u[i])

\* the sum of the amounts of stored records, in whole cents, as it prints:
\* "nan" as soon as one amount is nan
RECURSIVE CentsSum(_)
CentsSum(rows) ==
    IF rows = <<>> THEN 0
    ELSE LET a == ParseFloat(rows[Len(rows)][4])
         IN (IF a.neg THEN 0 - a.m ELSE a.m) + CentsSum(SubSeq(rows, 1, Len(rows) - 1))
PrintedSum(rows) ==
    IF \E i \in DOMAIN rows : rows[i][4] = <<"n", "a", "n">> THEN <<"n", "a", "n">>
    ELSE LET c == CentsSum(rows)
         IN FormatAmount(IF c < 0 THEN Fin(TRUE, 0 - c) ELSE Fin(FALSE, c))

\* C1: for every table of count records and every k in 1..count, delete k
\* leaves exactly the original records without the k-th, in their order
\* (those before k keep their position, those after move up by one), and
\* the record echoed as removed is the original k-th record.
C1_DeleteRemovesKth ==
    \A k \in 1..(MaxRows + 1) :
        (Ran /\ Typed(W_delete, StrOfNat(k)) /\ k <= Count(before)) =>
            LET b == DataRows(before)
                a == DataRows(file)
            IN /\ Len(a) = Len(b) - 1
               /\ \A i \in 1..(k - 1) : a[i] = b[i]
               /\ \A i \in k..Len(a) : a[i] = b[i + 1]
               /\ file.rows[1] = Header
               /\ out.kind = "deleted"
               /\ out.rows = <<b[k]>>
\* a middle record of a three-record table has been deleted
C1_Witness ==
    /\ Ran /\ Typed(W_delete, StrOfNat(2)) /\ Count(before) = 3
    /\ out.kind = "deleted" /\ Count(file) = 2

\* C2: for every table of count records (the empty one included), delete
\* with a position outside 1..count prints the range error naming 1..count,
\* leaves the records unchanged, and in single-shot mode ends with status 1.
C2_DeleteOutOfRange ==
    /\ \A k \in 0..(MaxRows + 1) :
        (Ran /\ Typed(W_delete, StrOfNat(k)) /\ (k < 1 \/ k > Count(before))) =>
            /\ out.kind = "invalid_index"
            /\ out.n = Count(before)
            /\ DataRows(file) = DataRows(before)
            /\ (cmd.iface = "argv" => exitStatus = 1)
    /\ (Ran /\ cmd = Argv(<<W_delete, T_minus1>>)) =>
            /\ out.kind = "invalid_index"
            /\ out.n = Count(before)
            /\ DataRows(file) = DataRows(before)
            /\ exitStatus = 1
\* single-shot delete count+1 on a non-empty table has been refused
C2_Witness ==
    /\ Ran /\ cmd.iface = "argv" /\ Count(before) >= 1
    /\ Typed(W_delete, StrOfNat(Count(before) + 1))
    /\ out.kind = "invalid_index" /\ exitStatus = 1
\* C3: in both interfaces an add whose date or amount is rejected, and a
\* monthly whose month is rejected, leaves the sequence of stored records
\* exactly as it was: nothing is appended or rewritten.
Rejections == {"bad_date", "bad_amount", "invalid_date", "amount_not_numeric", "bad_month"}
C3_RejectedLeavesRecords ==
    /\ (Ran /\ out.kind \in Rejections) => DataRows(file) = DataRows(before)
    /\ \A a \in {A_month13, A_feb30, A_abc} :
        (Ran /\ (AddOf(a) \/ cmd = Argv(<<W_add>> \o a \o <<T_extra>>))) =>
            out.kind \in Rejections /\ DataRows(file) = DataRows(before)
    /\ \A ym \in {<<"2", "0", "2", "5", "-", "1", "3">>, <<"2", "0", "2", "5">>} :
        (Ran /\ Typed(W_monthly, ym)) =>
            out.kind = "bad_month" /\ DataRows(file) = DataRows(before)
\* an add with a bad amount has been rejected on a non-empty table
C3_Witness ==
    /\ Ran /\ AddOf(A_abc) /\ Count(before) >= 1
    /\ out.kind \in {"bad_amount", "amount_not_numeric"}

\* C4: in the interactive loop no command with a bad field ends the
\* process: after any line other than quit / exit the loop is still running.
C4_InteractiveNeverExits ==
    (Ran /\ cmd.iface = "line" /\ Lower(Strip(cmd.args[1])) \notin {W_quit, W_exit})
        => mode = "interactive"

\* the fields an add was given: argv as typed; answers stripped, with today
\* for an empty date
GivenFields ==
    IF cmd.iface = "argv" THEN SubSeq(cmd.args, 2, 5)
    ELSE <<IF Strip(cmd.answers[1]) = <<>> THEN Today ELSE Strip(cmd.answers[1]),
           Strip(cmd.answers[2]), Strip(cmd.answers[3]), Strip(cmd.answers[4])>>
IsLowerCaseOf(c, given) ==
    Len(c) = Len(given) /\ \A i \in DOMAIN c : c[i] = LowerChar(given[i])

\* C5: for every table and every valid (date, description, category,
\* amount), add grows the table by exactly one record placed last, with the
\* given date and description, the category lower-cased and the amount
\* rendered with two decimals; the earlier records keep content and position.
C5_AddAppendsOneRecord ==
    (Ran /\ out.kind = "added") =>
        LET b == DataRows(before)
            a == DataRows(file)
            g == GivenFields
        IN /\ Len(a) = Len(b) + 1
           /\ SubSeq(a, 1, Len(b)) = b
           /\ Len(a[Len(a)]) = 4
           /\ a[Len(a)][1] = g[1]
           /\ a[Len(a)][2] = g[2]
           /\ IsLowerCaseOf(a[Len(a)][3], g[3])
           /\ TwoDecimalText(a[Len(a)][4])
           /\ ParseFloat(a[Len(a)][4]) = Round2(ParseFloat(g[4]))

\* C6: in single-shot mode add validates and appends only when followed by
\* exactly 4 further arguments; with any other count it prints the usage
\* banner, exits, and leaves the store unchanged.
C6_AddNeedsExactlyFour ==
    (Ran /\ cmd.iface = "argv" /\ cmd.args # <<>> /\ cmd.args[1] = W_add /\ Len(cmd.args) # 5)
        => out.kind = "usage" /\ file = before

\* C7: for every table of count records and every limit N >= 0 (0 and
\* N > count included) list shows the last min(N, count) records in file
\* order with the sum of the shown amounts as total; with no limit it shows
\* all count records.
ShowsLast(n) ==
    LET b == DataRows(before)
        shown == SubSeq(b, Len(b) - n + 1, Len(b))
    IN /\ out.kind = "list"
       /\ out.rows = shown
       /\ out.total = PrintedSum(shown)
C7_ListShowsLastN ==
    /\ \A n \in 0..(MaxRows + 1) :
        (Ran /\ Typed(W_list, StrOfNat(n))) => ShowsLast(Min(n, Count(before)))
    /\ (Ran /\ cmd \in {Argv(<<W_list>>), Line(W_list, <<>>)}) => ShowsLast(Count(before))

\* the categories of the stored records
CategoriesIn(rows) == {rows[i][3] : i \in DOMAIN rows}
OfCategory(rows, c) == SelectSeq(rows, LAMBDA r : r[3] = c)
\* a >= b on printed totals: never true of a nan
PrintedGeq(a, b) ==
    LET x == ParseFloat(a)
        y == ParseFloat(b)
    IN x.k # "nan" /\ y.k # "nan" /\ ~FLt(x, y)

\* C8: category summary prints exactly one row per distinct category of
\* the table, each with the sum of that category's amounts, in
\* non-increasing order of total, and the row totals add up to the sum of
\* all amounts.
C8_CategorySummary ==
    (Ran /\ out.kind = "summary") =>
        LET b == DataRows(before)
            rows == out.rows
        IN /\ {rows[i][1] : i \in DOMAIN rows} = CategoriesIn(b)
           /\ Len(rows) = Cardinality(CategoriesIn(b))
           /\ \A i \in DOMAIN rows : rows[i][2] = PrintedSum(OfCategory(b, rows[i][1]))
           /\ \A i \in 1..(Len(rows) - 1) : PrintedGeq(rows[i][2], rows[i + 1][2])
           /\ PrintedSum([i \in DOMAIN rows |-> <<rows[i][1], <<>>, <<>>, rows[i][2]>>])
                = PrintedSum(b)

\* the date text d begins with the characters of ym
HasPrefix(d, ym) == Len(d) >= Len(ym) /\ \A i \in DOMAIN ym : d[i] = ym[i]
\* C9: for every table and every accepted year-month ym, monthly ym lists
\* exactly the records whose date text starts with ym, in table order,
\* prints the sum of their amounts as total, and leaves the table unchanged.
C9_MonthlySummary ==
    \A ym \in {<<"2", "0", "2", "5", "-", "0", "9">>, <<"2", "0", "2", "5", "-", "9">>, <<"2", "0", "2", "5", "-", "0", "8">>} :
        (Ran /\ Typed(W_monthly, ym)) =>
            LET b == DataRows(before)
                idx == {i \in DOMAIN b : HasPrefix(b[i][1], ym)}
                nth(j) == CHOOSE i \in idx : Cardinality({x \in idx : x < i}) = j - 1
            IN /\ out.kind = "monthly"
               /\ Len(out.rows) = Cardinality(idx)
               /\ \A j \in DOMAIN out.rows : out.rows[j] = b[nth(j)]
               /\ out.total = PrintedSum([j \in DOMAIN out.rows |-> b[nth(j)]])
               /\ DataRows(file) = b
\* monthly 2025-09 has listed two of three records, skipping one between or around them
C9_Witness ==
    /\ Ran /\ Typed(W_monthly, <<"2", "0", "2", "5", "-", "0", "9">>) /\ out.kind = "monthly"
    /\ Count(before) = 3 /\ Len(out.rows) = 2
    /\ ~HasPrefix(DataRows(before)[2][1], <<"2", "0", "2", "5", "-", "0", "9">>)

\* C10: starting from an absent or header-only store, after any sequence of
\* commands the file begins with the header row and every data row has the
\* four fields, a lower-case category and an amount with exactly two decimals.
C10_FileWellFormed ==
    file.exists =>
        /\ file.rows # <<>>
        /\ file.rows[1] = Header
        /\ \A i \in 2..Len(file.rows) :
            /\ Len(file.rows[i]) = 4
            /\ file.rows[i][3] = Lower(file.rows[i][3])
            /\ TwoDecimalText(file.rows[i][4])


====
